---- MODULE Spec2Model ----
(***************************************************************************)
(* Model of src/src/prim.rs: the graph lowering pass                       *)
(* (PrimitiveCompiler::compile) and the verifiable-execution operator      *)
(* (CairoAdd::new, CairoAdd::process, get_vec).                            *)
(*                                                                         *)
(* Spec        : the lowering pass over a host graph, with the file system *)
(*               changing underneath it.                                   *)
(* SpecProcess : one invocation of CairoAdd::process, statement by         *)
(*               statement, with the external runner as an oracle.         *)
(***************************************************************************)
EXTENDS Integers, Sequences, FiniteSets, TLC

\* ------------------------------------------------------------------ bounds
MaxNodes == 3
MaxPasses == 2
MaxRank == 2
MaxDim == 3

\* --------------------------------------------------------------- variables
VARIABLES
    \* the host graph and the compiler (lowering pass)
    graph,          \* node index -> operator payload (Box<dyn Operator>)
    edges,          \* set of [src, dst, weight]
    runner_config,  \* PrimitiveCompiler.runner_config
    fs,             \* the paths that exist on the file system
    ids,            \* graph.node_indices().collect::<Vec<_>>()
    idx,            \* position of the for loop in ids
    shapes,         \* the local `shapes` of the current iteration
    pc,             \* "idle" | "loop" | "ok" | "panicked"
    panic,          \* panic message of the pass, "" when none
    passes,         \* number of compile calls started
    pre,            \* graph and edges when the current pass started
    visits,         \* node index -> loop iterations on it in this pass
    conversions,    \* node index -> substitutions performed on it, all passes
    absentAtNew,    \* nodes whose CairoAdd was constructed with the file absent
    \* one invocation of CairoAdd::process
    self,           \* the CairoAdd instance
    tensors,        \* Vec<(InputTensor, ShapeTracker)>
    ppc,            \* position in process
    ppanic,         \* panic message of process, "" when none
    data_a, data_b, shape_a, shape_b,
    broadcast_shape, strides_a, strides_b, expanded_a, expanded_b,
    cairo_runner,   \* configuration of the CairoRunner built by process
    inputs,         \* serialized inputs
    runs,           \* the calls made to CairoRunner::run, in order
    steps,          \* the external calls made by process, in order
    output          \* the Vec<Tensor> returned, <<>> when none

compileVars == <<graph, edges, runner_config, fs, ids, idx, shapes, pc, panic,
                 passes, pre, visits, conversions, absentAtNew>>
processVars == <<self, tensors, ppc, ppanic, data_a, data_b, shape_a, shape_b,
                 broadcast_shape, strides_a, strides_b, expanded_a, expanded_b,
                 cairo_runner, inputs, runs, steps, output>>
vars == <<compileVars, processVars>>

\* ------------------------------------------------------- operation kinds
\* The kinds the pass names and stubs with unimplemented!().
UnimplementedKinds ==
    {"Log2", "Exp2", "Sin", "Constant", "Recip", "Sqrt",
     "Mul", "Mod", "LessThan", "Contiguous", "SumReduce", "MaxReduce"}

\* A host operator the pass does not name (falls through the if-else chain).
UnrecognizedKinds == {"Function"}

Configs == {1, 2}
NoConfig == 0
NoPath == <<>>

\* crate::constants::COMPILED_CAIRO_PATH, the compiled-artifacts base directory.
COMPILED_CAIRO_PATH == "<base>"

\* PathBuf::join
Join(base, file) == <<base, file>>

AddSierra == Join(COMPILED_CAIRO_PATH, "add.sierra.json")
MulSierra == Join(COMPILED_CAIRO_PATH, "mul.sierra.json")
Paths == {AddSierra, MulSierra}

\* A host operator: its runtime type and its own data.
HostOp(k, t) ==
    [kind |-> k, tag |-> t, sierra_file |-> NoPath, runner_config |-> NoConfig]

\* struct CairoAdd { sierra_file, runner_config }
CairoAddStruct(sierra_file, cfg) ==
    [kind |-> "CairoAdd", tag |-> 0, sierra_file |-> sierra_file, runner_config |-> cfg]

\* CairoAdd::new panics exactly when the file does not exist.
NewPanicsNoCheck(sierra_file, files) == FALSE

NewPanics(sierra_file, files) == sierra_file \notin files

\* The operator `compile` builds for an Add node.
LoweredAddDefaultConfig(cfg) == CairoAddStruct(AddSierra, NoConfig)

LoweredAdd(cfg) == CairoAddStruct(Join(COMPILED_CAIRO_PATH, "add.sierra.json"), cfg)

\* is::<Add>(op)
IsAddOrCairoAdd(op) == op.kind \in {"Add", "CairoAdd"}

IsAdd(op) == op.kind = "Add"

\* the branches that end in unimplemented!()
IsUnimplementedButMul(op) == op.kind \in UnimplementedKinds \ {"Mul"}

IsUnimplemented(op) == op.kind \in UnimplementedKinds

\* *op_ref = Box::new(..) : overwrite the payload of node id
SubstituteAll(g, id, op) == [n \in DOMAIN g |-> op]

Substitute(g, id, op) == [g EXCEPT ![id] = op]

\* ------------------------------------------------------------------ edges
Nodes == 1..MaxNodes

DataEdge(s, d, in, out, sh) ==
    [src |-> s, dst |-> d,
     weight |-> [data |-> TRUE, input_order |-> in, output_order |-> out, shape |-> sh]]

ScheduleEdge(s, d) ==
    [src |-> s, dst |-> d,
     weight |-> [data |-> FALSE, input_order |-> 0, output_order |-> 0, shape |-> <<>>]]

\* Every earlier node feeds the last node, in reverse input order, and the
\* first node also schedules the last one.
FanIn ==
    {DataEdge(s, MaxNodes, MaxNodes - s, 0, <<s, 1>>) : s \in 1..(MaxNodes - 1)}
      \cup {ScheduleEdge(1, MaxNodes)}

\* Each node feeds the next one.
Chain == {DataEdge(s, s + 1, 0, 0, <<s>>) : s \in 1..(MaxNodes - 1)}

EdgeChoices == {FanIn, Chain}

\* edges_directed(id, Incoming).filter_map(as_data).sorted_by_key(|e| e.0).map(|e| e.2)
RECURSIVE SortedShapes(_)
SortedShapes(es) ==
    IF es = {} THEN <<>>
    ELSE LET e == CHOOSE x \in es :
                    \A y \in es : x.weight.input_order <= y.weight.input_order
         IN <<e.weight.shape>> \o SortedShapes(es \ {e})

IncomingShapes(E, id) ==
    SortedShapes({e \in E : e.dst = id /\ e.weight.data})

\* ------------------------------------------------------- the lowering pass
InitCompile ==
    /\ graph \in [Nodes -> {HostOp(k, 0) : k \in UnimplementedKinds \cup {"Add"}}
                             \cup {HostOp(k, t) : k \in UnrecognizedKinds, t \in 1..2}]
    /\ edges \in EdgeChoices
    /\ runner_config \in Configs
    /\ fs \in SUBSET Paths
    /\ ids = <<>>
    /\ idx = 0
    /\ shapes = <<>>
    /\ pc = "idle"
    /\ panic = ""
    /\ passes = 0
    /\ pre = [graph |-> graph, edges |-> edges]
    /\ visits = [n \in Nodes |-> 0]
    /\ conversions = [n \in Nodes |-> 0]
    /\ absentAtNew = {}

\* graph.node_indices(): the indices of the graph, ascending
RECURSIVE NodeIndices(_)
NodeIndices(n) == IF n = 0 THEN <<>> ELSE Append(NodeIndices(n - 1), n)

\* compile is entered: the node set is captured
CompileEnter ==
    /\ pc \in {"idle", "ok"}
    /\ passes < MaxPasses
    /\ passes' = passes + 1
    /\ ids' = NodeIndices(Cardinality(DOMAIN graph))
    /\ idx' = 1
    /\ pc' = "loop"
    /\ pre' = [graph |-> graph, edges |-> edges]
    /\ visits' = [n \in Nodes |-> 0]
    /\ UNCHANGED <<graph, edges, runner_config, fs, shapes, panic, conversions,
                   absentAtNew>>

\* one iteration whose node is of a stubbed kind: unimplemented!()
IterUnimplemented ==
    /\ pc = "loop"
    /\ idx <= Len(ids)
    /\ LET id == ids[idx] IN
        /\ IsUnimplemented(graph[id])
        /\ shapes' = IncomingShapes(edges, id)
        /\ visits' = [visits EXCEPT ![id] = @ + 1]
        /\ pc' = "panicked"
        /\ panic' = "not implemented"
    /\ UNCHANGED <<graph, edges, runner_config, fs, ids, idx, passes, pre,
                   conversions, absentAtNew>>

\* one iteration whose node is an Add
IterAdd ==
    /\ pc = "loop"
    /\ idx <= Len(ids)
    /\ LET id == ids[idx]
           sierra_file == LoweredAdd(runner_config).sierra_file
       IN
        /\ ~IsUnimplemented(graph[id])
        /\ IsAdd(graph[id])
        /\ shapes' = IncomingShapes(edges, id)
        /\ visits' = [visits EXCEPT ![id] = @ + 1]
        /\ IF NewPanics(sierra_file, fs)
           THEN /\ pc' = "panicked"
                /\ panic' = "Sierra file does not exist"
                /\ UNCHANGED <<graph, idx, conversions, absentAtNew>>
           ELSE /\ graph' = Substitute(graph, id, LoweredAdd(runner_config))
                /\ conversions' = [conversions EXCEPT ![id] = @ + 1]
                /\ absentAtNew' = IF sierra_file \in fs THEN absentAtNew
                                  ELSE absentAtNew \cup {id}
                /\ idx' = idx + 1
                /\ UNCHANGED <<pc, panic>>
    /\ UNCHANGED <<edges, runner_config, fs, ids, passes, pre>>

\* one iteration whose node matches no branch
IterPassThrough ==
    /\ pc = "loop"
    /\ idx <= Len(ids)
    /\ LET id == ids[idx] IN
        /\ ~IsUnimplemented(graph[id])
        /\ ~IsAdd(graph[id])
        /\ shapes' = IncomingShapes(edges, id)
        /\ visits' = [visits EXCEPT ![id] = @ + 1]
        /\ idx' = idx + 1
    /\ UNCHANGED <<graph, edges, runner_config, fs, ids, pc, panic, passes, pre,
                   conversions, absentAtNew>>

\* the loop is over: Ok(())
CompileReturn ==
    /\ pc = "loop"
    /\ idx > Len(ids)
    /\ pc' = "ok"
    /\ UNCHANGED <<graph, edges, runner_config, fs, ids, idx, shapes, panic, passes,
                   pre, visits, conversions, absentAtNew>>

\* the file system is not owned by the pass: an artifact appears or disappears
FileChange ==
    /\ pc \in {"idle", "loop", "ok"}
    /\ \E p \in Paths : fs' = IF p \in fs THEN fs \ {p} ELSE fs \cup {p}
    /\ UNCHANGED <<graph, edges, runner_config, ids, idx, shapes, pc, panic, passes,
                   pre, visits, conversions, absentAtNew>>

\* ------------------------------------------------ precomputing, serialization
Max(x, y) == IF x >= y THEN x ELSE y

RECURSIVE Product(_)
Product(s) == IF s = <<>> THEN 1 ELSE Head(s) * Product(Tail(s))

Front(s) == SubSeq(s, 1, Len(s) - 1)

\* precomputing::compute_strides: stride[i] = product of shape[i+1..]
compute_strides(shape) ==
    [i \in 1..Len(shape) |-> Product(SubSeq(shape, i + 1, Len(shape)))]

BroadcastErr == [ok |-> FALSE, shape |-> <<>>]

\* precomputing::determine_broadcast_shape: the shapes are walked from the
\* trailing dimension leftward, a missing leading dimension counting as 1.
RECURSIVE determine_broadcast_shape(_, _)
determine_broadcast_shape(a, b) ==
    IF a = <<>> /\ b = <<>> THEN [ok |-> TRUE, shape |-> <<>>]
    ELSE LET da == IF a = <<>> THEN 1 ELSE a[Len(a)]
             db == IF b = <<>> THEN 1 ELSE b[Len(b)]
             rest == determine_broadcast_shape(
                         IF a = <<>> THEN a ELSE Front(a),
                         IF b = <<>> THEN b ELSE Front(b))
         IN  IF ~rest.ok THEN BroadcastErr
             ELSE IF da = db THEN [ok |-> TRUE, shape |-> Append(rest.shape, da)]
             ELSE IF (da = 1) # (db = 1)
                  THEN [ok |-> TRUE, shape |-> Append(rest.shape, Max(da, db))]
             ELSE BroadcastErr

\* coordinate of flat row-major index k (from 0) along dimension j of shape
Coord(k, shape, j) == (k \div Product(SubSeq(shape, j + 1, Len(shape)))) % shape[j]

RECURSIVE Dot(_, _)
Dot(x, y) == IF x = <<>> THEN 0 ELSE Head(x) * Head(y) + Dot(Tail(x), Tail(y))

\* precomputing::expand_data: row-major over broadcast_shape; the source index
\* is the output index right-aligned against original_shape, with the
\* size-1 dimensions clamped to 0 and the extra leading dimensions dropped.
expand_data(data, original_shape, bshape, original_strides) ==
    LET off == Len(bshape) - Len(original_shape)
        src(k) == [j \in 1..Len(original_shape) |->
                      IF original_shape[j] = 1 THEN 0 ELSE Coord(k, bshape, j + off)]
    IN  [k \in 1..Product(bshape) |-> data[Dot(src(k - 1), original_strides) + 1]]

\* serialization::serialize_inputs_binary_op: operand A fully, then operand B
\* fully, each prefixed by its length.
serialize_inputs_binary_op(a, b) == <<Len(a)>> \o a \o <<Len(b)>> \o b

\* --------------------------------------------------------- CairoAdd::process
RECURSIVE SeqsUpTo(_, _)
SeqsUpTo(S, n) ==
    IF n = 0 THEN {<<>>}
    ELSE LET shorter == SeqsUpTo(S, n - 1)
         IN shorter \cup {Append(s, x) : s \in shorter, x \in S}

Shapes == SeqsUpTo(1..MaxDim, MaxRank)

StorageTypes == {"Vec<f32>", "Vec<f64>"}

\* the storage of a tensor of the given shape, scale tells the operands apart
Storage(shape, scale) == [i \in 1..Product(shape) |-> scale * i]

TensorOf(ty, shape, scale) ==
    [type |-> ty, data |-> Storage(shape, scale), shape |-> shape]

SmallShapes == {<<>>, <<2>>}

InputChoices ==
    {<<TensorOf(ta, sa, 10), TensorOf(tb, sb, 1)>> :
        ta \in StorageTypes, tb \in StorageTypes, sa \in Shapes, sb \in Shapes}
    \cup {<<TensorOf(ta, sa, 10)>> : ta \in StorageTypes, sa \in SmallShapes}
    \cup {<<TensorOf("Vec<f32>", sa, 10), TensorOf("Vec<f32>", sb, 1), TensorOf(tc, sc, 2)>> :
            sa \in SmallShapes, sb \in SmallShapes, tc \in StorageTypes, sc \in SmallShapes}

\* what CairoRunner::run may answer: an output tensor or an error
RunnerOutcomes ==
    {[ok |-> TRUE, val |-> "tensor1"], [ok |-> TRUE, val |-> "tensor2"],
     [ok |-> FALSE, val |-> "runner error"]}

\* tensors.len() != 2
ArityOkAtLeastTwo(ts) == Len(ts) >= 2

ArityOk(ts) == Len(ts) = 2

\* get_vec: downcast_ref::<Vec<f32>>() is Some
IsVecF32(t) == t.type = "Vec<f32>"

\* determine_broadcast_shape(&shape_a, &shape_b)
BroadcastOfFirst(sa, sb) == determine_broadcast_shape(sa, sa)

BroadcastOf(sa, sb) == determine_broadcast_shape(sa, sb)

\* serialize_inputs_binary_op(expanded_a, expanded_b)
SerializedInputsSwapped(ea, eb) == serialize_inputs_binary_op(eb, ea)

SerializedInputs(ea, eb) == serialize_inputs_binary_op(ea, eb)

\* the arguments of cairo_runner.run(self.sierra_file.clone(), inputs, false)
RunArgs(op, ins) == [program |-> op.sierra_file, inputs |-> ins, flag |-> FALSE]

InitProcessIdle ==
    /\ self = CairoAddStruct(AddSierra, 1)
    /\ tensors = <<>>
    /\ ppc = "idle"
    /\ ppanic = ""
    /\ data_a = <<>> /\ data_b = <<>> /\ shape_a = <<>> /\ shape_b = <<>>
    /\ broadcast_shape = <<>> /\ strides_a = <<>> /\ strides_b = <<>>
    /\ expanded_a = <<>> /\ expanded_b = <<>>
    /\ cairo_runner = NoConfig
    /\ inputs = <<>>
    /\ runs = <<>>
    /\ steps = <<>>
    /\ output = <<>>

InitProcess ==
    /\ self \in {CairoAddStruct(p, c) : p \in Paths, c \in Configs}
    /\ tensors \in InputChoices
    /\ ppc = "entry"
    /\ ppanic = ""
    /\ data_a = <<>> /\ data_b = <<>> /\ shape_a = <<>> /\ shape_b = <<>>
    /\ broadcast_shape = <<>> /\ strides_a = <<>> /\ strides_b = <<>>
    /\ expanded_a = <<>> /\ expanded_b = <<>>
    /\ cairo_runner = NoConfig
    /\ inputs = <<>>
    /\ runs = <<>>
    /\ steps = <<>>
    /\ output = <<>>

\* if tensors.len() != 2 { panic!(..) }
CheckArity ==
    /\ ppc = "entry"
    /\ IF ArityOk(tensors)
       THEN ppc' = "get_vec_a" /\ UNCHANGED ppanic
       ELSE ppc' = "panicked"
            /\ ppanic' = "CairoAdd operator requires exactly two input tensors."
    /\ UNCHANGED <<self, tensors, data_a, data_b, shape_a, shape_b, broadcast_shape,
                   strides_a, strides_b, expanded_a, expanded_b, cairo_runner,
                   inputs, runs, steps, output>>

\* let data_a = get_vec(tensor_a);
GetVecA ==
    /\ ppc = "get_vec_a"
    /\ IF IsVecF32(tensors[1])
       THEN ppc' = "get_vec_b" /\ data_a' = tensors[1].data /\ UNCHANGED ppanic
       ELSE ppc' = "panicked" /\ ppanic' = "Tensor data is not Vec<f32>"
            /\ UNCHANGED data_a
    /\ UNCHANGED <<self, tensors, data_b, shape_a, shape_b, broadcast_shape,
                   strides_a, strides_b, expanded_a, expanded_b, cairo_runner,
                   inputs, runs, steps, output>>

\* let data_b = get_vec(tensor_b);
GetVecB ==
    /\ ppc = "get_vec_b"
    /\ IF IsVecF32(tensors[2])
       THEN ppc' = "shapes" /\ data_b' = tensors[2].data /\ UNCHANGED ppanic
       ELSE ppc' = "panicked" /\ ppanic' = "Tensor data is not Vec<f32>"
            /\ UNCHANGED data_b
    /\ UNCHANGED <<self, tensors, data_a, shape_a, shape_b, broadcast_shape,
                   strides_a, strides_b, expanded_a, expanded_b, cairo_runner,
                   inputs, runs, steps, output>>

\* shape_a_tracker.shape_usize(), shape_b_tracker.shape_usize()
GetShapes ==
    /\ ppc = "shapes"
    /\ shape_a' = tensors[1].shape
    /\ shape_b' = tensors[2].shape
    /\ ppc' = "broadcast"
    /\ UNCHANGED <<self, tensors, ppanic, data_a, data_b, broadcast_shape,
                   strides_a, strides_b, expanded_a, expanded_b, cairo_runner,
                   inputs, runs, steps, output>>

\* match determine_broadcast_shape(..) { Ok(shape) => shape, Err(e) => panic!(..) }
ResolveBroadcast ==
    /\ ppc = "broadcast"
    /\ steps' = Append(steps, "determine_broadcast_shape")
    /\ LET r == BroadcastOf(shape_a, shape_b) IN
         IF r.ok
         THEN ppc' = "strides" /\ broadcast_shape' = r.shape /\ UNCHANGED ppanic
         ELSE ppc' = "panicked" /\ ppanic' = "Broadcasting error"
              /\ UNCHANGED broadcast_shape
    /\ UNCHANGED <<self, tensors, data_a, data_b, shape_a, shape_b,
                   strides_a, strides_b, expanded_a, expanded_b, cairo_runner,
                   inputs, runs, output>>

\* compute_strides(&shape_a), compute_strides(&shape_b)
ComputeStrides ==
    /\ ppc = "strides"
    /\ strides_a' = compute_strides(shape_a)
    /\ strides_b' = compute_strides(shape_b)
    /\ steps' = steps \o <<"compute_strides(a)", "compute_strides(b)">>
    /\ ppc' = "expand_a"
    /\ UNCHANGED <<self, tensors, ppanic, data_a, data_b, shape_a, shape_b,
                   broadcast_shape, expanded_a, expanded_b, cairo_runner,
                   inputs, runs, output>>

\* expand_data(&data_a, &shape_a, &broadcast_shape, &strides_a)
ExpandA ==
    /\ ppc = "expand_a"
    /\ expanded_a' = expand_data(data_a, shape_a, broadcast_shape, strides_a)
    /\ steps' = Append(steps, "expand_data(a)")
    /\ ppc' = "expand_b"
    /\ UNCHANGED <<self, tensors, ppanic, data_a, data_b, shape_a, shape_b,
                   broadcast_shape, strides_a, strides_b, expanded_b, cairo_runner,
                   inputs, runs, output>>

\* expand_data(&data_b, &shape_b, &broadcast_shape, &strides_b)
ExpandB ==
    /\ ppc = "expand_b"
    /\ expanded_b' = expand_data(data_b, shape_b, broadcast_shape, strides_b)
    /\ steps' = Append(steps, "expand_data(b)")
    /\ ppc' = "new_runner"
    /\ UNCHANGED <<self, tensors, ppanic, data_a, data_b, shape_a, shape_b,
                   broadcast_shape, strides_a, strides_b, expanded_a, cairo_runner,
                   inputs, runs, output>>

\* CairoRunner::new((*self.runner_config).clone())
NewRunner ==
    /\ ppc = "new_runner"
    /\ cairo_runner' = self.runner_config
    /\ steps' = Append(steps, "CairoRunner::new")
    /\ ppc' = "serialize"
    /\ UNCHANGED <<self, tensors, ppanic, data_a, data_b, shape_a, shape_b,
                   broadcast_shape, strides_a, strides_b, expanded_a, expanded_b,
                   inputs, runs, output>>

\* let inputs = serialize_inputs_binary_op(expanded_a, expanded_b);
Serialize ==
    /\ ppc = "serialize"
    /\ inputs' = SerializedInputs(expanded_a, expanded_b)
    /\ steps' = Append(steps, "serialize_inputs_binary_op")
    /\ ppc' = "run"
    /\ UNCHANGED <<self, tensors, ppanic, data_a, data_b, shape_a, shape_b,
                   broadcast_shape, strides_a, strides_b, expanded_a, expanded_b,
                   cairo_runner, runs, output>>

\* Err(e) is answered by running again
RunRetrying ==
    /\ ppc = "run"
    /\ \E r \in RunnerOutcomes :
        /\ runs' = Append(runs, [args |-> RunArgs(self, inputs),
                                 config |-> cairo_runner, result |-> r])
        /\ steps' = Append(steps, "run")
        /\ IF r.ok
           THEN ppc' = "returned" /\ output' = <<r.val>> /\ UNCHANGED ppanic
           ELSE IF Len(runs) = 0
           THEN UNCHANGED <<ppc, ppanic, output>>
           ELSE ppc' = "panicked" /\ ppanic' = "Error executing Cairo"
                /\ UNCHANGED output
    /\ UNCHANGED <<self, tensors, data_a, data_b, shape_a, shape_b,
                   broadcast_shape, strides_a, strides_b, expanded_a, expanded_b,
                   cairo_runner, inputs>>

\* match cairo_runner.run(..) { Ok(result) => vec![result], Err(e) => panic!(..) }
Run ==
    /\ ppc = "run"
    /\ \E r \in RunnerOutcomes :
        /\ runs' = Append(runs, [args |-> RunArgs(self, inputs),
                                 config |-> cairo_runner, result |-> r])
        /\ steps' = Append(steps, "run")
        /\ IF r.ok
           THEN ppc' = "returned" /\ output' = <<r.val>> /\ UNCHANGED ppanic
           ELSE ppc' = "panicked" /\ ppanic' = "Error executing Cairo"
                /\ UNCHANGED output
    /\ UNCHANGED <<self, tensors, data_a, data_b, shape_a, shape_b,
                   broadcast_shape, strides_a, strides_b, expanded_a, expanded_b,
                   cairo_runner, inputs>>

InitCompileIdle ==
    /\ graph = [n \in Nodes |-> HostOp("Add", 0)]
    /\ edges = Chain
    /\ runner_config = 1
    /\ fs = Paths
    /\ ids = <<>>
    /\ idx = 0
    /\ shapes = <<>>
    /\ pc = "idle"
    /\ panic = ""
    /\ passes = 0
    /\ pre = [graph |-> graph, edges |-> edges]
    /\ visits = [n \in Nodes |-> 0]
    /\ conversions = [n \in Nodes |-> 0]
    /\ absentAtNew = {}

InitP == InitCompileIdle /\ InitProcess

NextProcess ==
    \/ (CheckArity /\ UNCHANGED compileVars)
    \/ (GetVecA /\ UNCHANGED compileVars)
    \/ (GetVecB /\ UNCHANGED compileVars)
    \/ (GetShapes /\ UNCHANGED compileVars)
    \/ (ResolveBroadcast /\ UNCHANGED compileVars)
    \/ (ComputeStrides /\ UNCHANGED compileVars)
    \/ (ExpandA /\ UNCHANGED compileVars)
    \/ (ExpandB /\ UNCHANGED compileVars)
    \/ (NewRunner /\ UNCHANGED compileVars)
    \/ (Serialize /\ UNCHANGED compileVars)
    \/ (Run /\ UNCHANGED compileVars)

SpecProcess == InitP /\ [][NextProcess]_vars

Init == InitCompile /\ InitProcessIdle

Next ==
    \/ (CompileEnter /\ UNCHANGED processVars)
    \/ (IterUnimplemented /\ UNCHANGED processVars)
    \/ (IterAdd /\ UNCHANGED processVars)
    \/ (IterPassThrough /\ UNCHANGED processVars)
    \/ (CompileReturn /\ UNCHANGED processVars)
    \/ (FileChange /\ UNCHANGED processVars)

Spec == Init /\ [][Next]_vars

\* ================================================================= claims

\* ---- the lowering pass (Spec)

\* C1: whenever compile returns Ok, every node that held Add when the pass
\* started holds a CairoAdd whose program path is <base>/add.sierra.json and
\* whose runner configuration is the compiler's, and no Add node is left.
C1_AddNodesLowered ==
    pc = "ok" =>
        /\ \A n \in DOMAIN pre.graph :
              pre.graph[n].kind = "Add" =>
                  /\ graph[n].kind = "CairoAdd"
                  /\ graph[n].sierra_file = <<COMPILED_CAIRO_PATH, "add.sierra.json">>
                  /\ graph[n].runner_config = runner_config
        /\ \A n \in DOMAIN graph : graph[n].kind # "Add"

C1_Witness ==
    /\ pc = "ok"
    /\ \E n \in DOMAIN graph, m \in DOMAIN graph :
          /\ pre.graph[n].kind = "Add"
          /\ pre.graph[m].kind = "Function"

\* C2: a graph holding a node of a recognized-but-unsupported kind never gets
\* an Ok from compile, and the pass has panicked as soon as such a node has
\* been reached.
C2_Kinds ==
    {"Log2", "Exp2", "Sin", "Constant", "Recip", "Sqrt", "Mul", "Mod",
     "LessThan", "Contiguous", "SumReduce", "MaxReduce"}

C2_UnsupportedAborts ==
    /\ pc = "ok" => \A n \in DOMAIN graph : pre.graph[n].kind \notin C2_Kinds
    /\ \A n \in DOMAIN graph :
          (visits[n] >= 1 /\ graph[n].kind \in C2_Kinds) =>
              (pc = "panicked" /\ panic = "not implemented")

C2_Witness ==
    /\ pc = "panicked"
    /\ panic = "not implemented"
    /\ idx > 1
    /\ graph[ids[idx]].kind = "Mul"

\* C3: when the pass aborts on a recognized-but-unimplemented kind, no node of
\* the graph has been replaced by a CairoAdd.
C3_NoPartialLowering ==
    (pc = "panicked" /\ panic = "not implemented") =>
        \A n \in DOMAIN graph : graph[n].kind # "CairoAdd"

\* C4: the pass changes nothing but the payload of Add nodes: the node
\* indices, every edge with its ordering key and shape, and the payload of
\* every node that was not an Add are what they were when the pass started.
C4_FramePreserved ==
    /\ DOMAIN graph = DOMAIN pre.graph
    /\ edges = pre.edges
    /\ \A n \in DOMAIN graph : pre.graph[n].kind # "Add" => graph[n] = pre.graph[n]

C4_Witness ==
    /\ pc \in {"ok", "panicked"}
    /\ \E e \in edges : e.weight.data
    /\ \E n \in DOMAIN graph, m \in DOMAIN graph :
          /\ pre.graph[n].kind = "Add" /\ graph[n].kind = "CairoAdd"
          /\ pre.graph[m].kind = "Function" /\ visits[m] = 1

\* C5: no node is converted twice: in a pass each captured node is examined
\* at most once, exactly once when the pass completes, and a pass over an
\* already-lowered graph substitutes nothing.
C5_NoDoubleConversion ==
    /\ \A n \in DOMAIN graph : visits[n] <= 1 /\ conversions[n] <= 1
    /\ pc = "ok" => \A n \in DOMAIN graph : visits[n] = 1
    /\ passes >= 2 => graph = pre.graph

C5_Witness ==
    /\ passes = 2
    /\ pc = "ok"
    /\ \E n \in DOMAIN graph : graph[n].kind = "CairoAdd" /\ conversions[n] = 1

\* C7: a missing artifact is detected when the operator is constructed: the
\* pass panics with the node still holding its Add operator, a visited Add
\* node is either converted or the cause of that panic, and no CairoAdd in the
\* graph was constructed while its file was absent.
C7_MissingArtifactFailsFast ==
    /\ absentAtNew = {}
    /\ (pc = "panicked" /\ panic = "Sierra file does not exist") =>
          /\ graph[ids[idx]] = pre.graph[ids[idx]]
          /\ graph[ids[idx]].kind = "Add"
          /\ <<COMPILED_CAIRO_PATH, "add.sierra.json">> \notin fs
    /\ \A n \in DOMAIN graph :
          (visits[n] >= 1 /\ graph[n].kind = "Add") =>
              (pc = "panicked" /\ panic = "Sierra file does not exist")

C7_Witness ==
    /\ pc = "panicked"
    /\ panic = "Sierra file does not exist"
    /\ \E n \in DOMAIN graph : graph[n].kind = "CairoAdd"

\* ---- one invocation of the operator (SpecProcess)

\* dimension i of shape s right-aligned in n dimensions, padded with 1
Aligned(s, n, i) == IF i > n - Len(s) THEN s[i - (n - Len(s))] ELSE 1

Compatible(sa, sb) ==
    LET n == Max(Len(sa), Len(sb)) IN
    \A i \in 1..n :
        \/ Aligned(sa, n, i) = Aligned(sb, n, i)
        \/ Aligned(sa, n, i) = 1
        \/ Aligned(sb, n, i) = 1

ValidInputs ==
    /\ Len(tensors) = 2
    /\ tensors[1].type = "Vec<f32>"
    /\ tensors[2].type = "Vec<f32>"
    /\ Compatible(tensors[1].shape, tensors[2].shape)

\* C6: the runner is invoked only after all validation has passed: with an
\* arity other than two, a storage that is not Vec<f32> or shapes that do not
\* broadcast, the runner is never invoked and nothing is returned.
C6_ValidationBeforeRunner ==
    ~ValidInputs =>
        /\ runs = <<>>
        /\ ppc \notin {"run", "returned"}
        /\ output = <<>>

C6_Witness ==
    /\ ppc = "panicked"
    /\ Len(tensors) = 3

\* C8: the runner is invoked at most once per invocation, and when it answers
\* an error the operator has panicked and returned no tensor.
C8_RunnerFailureIsFatal ==
    /\ Len(runs) <= 1
    /\ (Len(runs) = 1 /\ ~runs[1].result.ok) =>
          /\ ppc = "panicked"
          /\ ppanic = "Error executing Cairo"
          /\ output = <<>>

C8_Witness ==
    /\ Len(runs) = 1
    /\ ~runs[1].result.ok

\* C9: once the runner has been invoked, the calls were made in the order
\* broadcast shape, expand A, expand B, serialize, run; the runner was called
\* once with the operator's program path, the serialization of (expanded A,
\* expanded B) and the flag false; and a returned output is the runner's
\* result alone.
C9_Order == {"determine_broadcast_shape", "expand_data(a)", "expand_data(b)",
             "serialize_inputs_binary_op", "run"}

C9_InOrder(x) == x \in C9_Order

C9_PipelineOrder ==
    runs # <<>> =>
        LET ta == tensors[1]
            tb == tensors[2]
            bs == determine_broadcast_shape(ta.shape, tb.shape).shape
            ea == expand_data(ta.data, ta.shape, bs, compute_strides(ta.shape))
            eb == expand_data(tb.data, tb.shape, bs, compute_strides(tb.shape))
        IN  /\ ValidInputs
            /\ SelectSeq(steps, C9_InOrder) =
                  <<"determine_broadcast_shape", "expand_data(a)", "expand_data(b)",
                    "serialize_inputs_binary_op", "run">>
            /\ Len(runs) = 1
            /\ runs[1].args = [program |-> self.sierra_file,
                               inputs |-> serialize_inputs_binary_op(ea, eb),
                               flag |-> FALSE]
            /\ runs[1].result.ok => (ppc = "returned" /\ output = <<runs[1].result.val>>)
            /\ ppc = "returned" => runs[1].result.ok

C9_Witness ==
    /\ ppc = "returned"
    /\ tensors[1].shape = <<2, 1>>
    /\ tensors[2].shape = <<1, 2>>
    /\ expanded_a = <<10, 10, 20, 20>>
    /\ expanded_b = <<1, 2, 1, 2>>

\* C10: shape resolution in process succeeds exactly when every right-aligned
\* dimension pair is equal or has a 1 on one side; the resolved shape has the
\* longer length and the larger size of each pair; a failure is the
\* broadcasting panic and leaves no shape.
C10_Resolved == \E i \in 1..Len(steps) : steps[i] = "determine_broadcast_shape"

C10_BroadcastRule ==
    C10_Resolved =>
        LET sa == tensors[1].shape
            sb == tensors[2].shape
            n == Max(Len(sa), Len(sb))
        IN  /\ (ppanic = "Broadcasting error") <=> ~Compatible(sa, sb)
            /\ ppanic = "Broadcasting error" =>
                  (ppc = "panicked" /\ broadcast_shape = <<>> /\ runs = <<>>)
            /\ ppanic # "Broadcasting error" =>
                  /\ Len(broadcast_shape) = n
                  /\ \A i \in 1..n :
                        broadcast_shape[i] = Max(Aligned(sa, n, i), Aligned(sb, n, i))

C10_Witness ==
    /\ C10_Resolved
    /\ ppanic = ""
    /\ tensors[1].shape = <<3>>
    /\ tensors[2].shape = <<2, 1>>
    /\ broadcast_shape = <<2, 3>>

====
